---- MODULE Spec2Model ----
(***************************************************************************)
(* A model of the LC-3 virtual machine of keroro520/lc3-zkvm: the register *)
(* file (register.rs), the memory (memory.rs), the decoder (opcode.rs),    *)
(* the instruction handlers and trap routines (instruction.rs), the object *)
(* file loader and the fetch/execute loop (utils.rs) and main (main.rs).   *)
(*                                                                         *)
(* Words are u16: every arithmetic result is reduced mod 2^16 exactly      *)
(* where the source uses wrapping_add or a u16 shift, and NOT where the    *)
(* source uses a plain `+= 1` (which panics when the build has overflow    *)
(* checks on and wraps when it has them off; overflow_checks is the build  *)
(* profile).                                                               *)
(***************************************************************************)
EXTENDS Integers, Sequences, FiniteSets, TLC

VARIABLES
    registers,        \* RegisterFile {registers: [u16; 8], pc, cond}
    memory,           \* Memory.data, kept sparse: address -> non-zero word
    overflow_checks,  \* build profile: TRUE = debug (plain + panics on overflow)
    status,           \* execute_program: "loading", "running", its return value, or "panic"
    steps,            \* loop iterations taken so far (bounded by MaxSteps)
    last,             \* the last execute call: instruction, state and console before it, result, output
    arg,              \* harness: the input of the function or call under test
    ret               \* harness: what the function under test returned

vars == <<registers, memory, overflow_checks, status, steps, last, arg, ret>>

(***************************************************************************)
(* u16 arithmetic                                                          *)
(***************************************************************************)
WordMod == 2 ^ 16

Word == 0 .. (WordMod - 1)

\* u16::wrapping_add
wrapping_add(a, b) == (a + b) % WordMod

\* x >> n on u16
Shr(x, n) == x \div (2 ^ n)

\* x << n on u16 (n < 16): the bits shifted out are lost
Shl(x, n) == (x * (2 ^ n)) % WordMod

RECURSIVE BitAnd(_, _)
\* x & y
BitAnd(x, y) ==
    IF x = 0 \/ y = 0 THEN 0
    ELSE (IF x % 2 = 1 /\ y % 2 = 1 THEN 1 ELSE 0) + 2 * BitAnd(x \div 2, y \div 2)

RECURSIVE BitOr(_, _)
\* x | y
BitOr(x, y) ==
    IF x = 0 THEN y
    ELSE IF y = 0 THEN x
    ELSE (IF x % 2 = 1 \/ y % 2 = 1 THEN 1 ELSE 0) + 2 * BitOr(x \div 2, y \div 2)

RECURSIVE BitNotN(_, _)
\* the low n bits of x, each flipped
BitNotN(x, n) ==
    IF n = 0 THEN 0
    ELSE (1 - (x % 2)) + 2 * BitNotN(x \div 2, n - 1)

\* !x on u16
BitNot(x) == BitNotN(x, 16)

(***************************************************************************)
(* register.rs                                                             *)
(***************************************************************************)
R_COUNT == 8

R0 == 0
R1 == 1
R2 == 2
R3 == 3
R4 == 4
R5 == 5
R6 == 6
R7 == 7
PC == 8
COND == 9

GeneralRegisters == {R0, R1, R2, R3, R4, R5, R6, R7}

FL_POS == Shl(1, 0)
FL_ZRO == Shl(1, 1)
FL_NEG == Shl(1, 2)

\* RegisterFile::new
RegisterFile_new ==
    [registers |-> [i \in 0 .. (R_COUNT - 1) |-> 0], pc |-> 0, cond |-> 0]

\* RegisterFile::read
RegisterFile_read(rf, register) ==
    IF register \in GeneralRegisters THEN rf.registers[register]
    ELSE IF register = PC THEN rf.pc
    ELSE rf.cond

\* RegisterFile::write on one array indexed by register % R_COUNT: PC and
\* COND share R0's and R1's cells
RegisterFile_write_shared(rf, register, value) ==
    [rf EXCEPT !.registers[register % R_COUNT] = value]

\* RegisterFile::write
RegisterFile_write(rf, register, value) ==
    IF register \in GeneralRegisters
    THEN [rf EXCEPT !.registers[register] = value]
    ELSE IF register = PC THEN [rf EXCEPT !.pc = value]
    ELSE [rf EXCEPT !.cond = value]

\* update_flags with `|=` for `=`: the flags accumulate
update_flags_accumulating(rf, value) ==
    IF value = 0 THEN [rf EXCEPT !.cond = BitOr(rf.cond, FL_ZRO)]
    ELSE IF Shr(value, 15) = 1 THEN [rf EXCEPT !.cond = BitOr(rf.cond, FL_NEG)]
    ELSE [rf EXCEPT !.cond = BitOr(rf.cond, FL_POS)]

\* RegisterFile::update_flags
update_flags(rf, value) ==
    IF value = 0 THEN [rf EXCEPT !.cond = FL_ZRO]
    ELSE IF Shr(value, 15) = 1 THEN [rf EXCEPT !.cond = FL_NEG]
    ELSE [rf EXCEPT !.cond = FL_POS]

(***************************************************************************)
(* memory.rs.  data is [u16; 65536], zero-initialised.  The model keeps    *)
(* the array sparse: a function from the addresses that hold a non-zero    *)
(* word to that word; every other address of 0..65535 holds 0.             *)
(***************************************************************************)
MEMORY_SIZE == 65536

Addresses == 0 .. (MEMORY_SIZE - 1)

\* Memory::new
Memory_new == << >>

\* Memory::read
Memory_read(mem, address) ==
    IF address \in DOMAIN mem THEN mem[address] ELSE 0

\* Memory::write indexing data with the low 15 bits of the address
Memory_write_low_bits(mem, address, value) ==
    IF value = 0
    THEN [a \in (DOMAIN mem) \ {address % 32768} |-> mem[a]]
    ELSE [a \in (DOMAIN mem) \cup {address % 32768} |->
            IF a = address % 32768 THEN value ELSE mem[a]]

\* Memory::write
Memory_write(mem, address, value) ==
    IF value = 0
    THEN [a \in (DOMAIN mem) \ {address} |-> mem[a]]
    ELSE [a \in (DOMAIN mem) \cup {address} |-> IF a = address THEN value ELSE mem[a]]

\* Memory::clear
Memory_clear(mem) == << >>

(***************************************************************************)
(* opcode.rs                                                               *)
(***************************************************************************)
None == "None"

\* from_u16 without the arm for 13: the reserved opcode does not decode
from_u16_without_reserved(value) ==
    CASE value = 0 -> "OP_BR"
      [] value = 1 -> "OP_ADD"
      [] value = 2 -> "OP_LD"
      [] value = 3 -> "OP_ST"
      [] value = 4 -> "OP_JSR"
      [] value = 5 -> "OP_AND"
      [] value = 6 -> "OP_LDR"
      [] value = 7 -> "OP_STR"
      [] value = 8 -> "OP_RTI"
      [] value = 9 -> "OP_NOT"
      [] value = 10 -> "OP_LDI"
      [] value = 11 -> "OP_STI"
      [] value = 12 -> "OP_JMP"
      [] value = 14 -> "OP_LEA"
      [] value = 15 -> "OP_TRAP"
      [] OTHER -> None

\* Opcode::from_u16
from_u16(value) ==
    CASE value = 0 -> "OP_BR"
      [] value = 1 -> "OP_ADD"
      [] value = 2 -> "OP_LD"
      [] value = 3 -> "OP_ST"
      [] value = 4 -> "OP_JSR"
      [] value = 5 -> "OP_AND"
      [] value = 6 -> "OP_LDR"
      [] value = 7 -> "OP_STR"
      [] value = 8 -> "OP_RTI"
      [] value = 9 -> "OP_NOT"
      [] value = 10 -> "OP_LDI"
      [] value = 11 -> "OP_STI"
      [] value = 12 -> "OP_JMP"
      [] value = 13 -> "OP_RES"
      [] value = 14 -> "OP_LEA"
      [] value = 15 -> "OP_TRAP"
      [] OTHER -> None

\* Opcode::to_u16: the enum's discriminant
to_u16(op) ==
    CASE op = "OP_BR" -> 0
      [] op = "OP_ADD" -> 1
      [] op = "OP_LD" -> 2
      [] op = "OP_ST" -> 3
      [] op = "OP_JSR" -> 4
      [] op = "OP_AND" -> 5
      [] op = "OP_LDR" -> 6
      [] op = "OP_STR" -> 7
      [] op = "OP_RTI" -> 8
      [] op = "OP_NOT" -> 9
      [] op = "OP_LDI" -> 10
      [] op = "OP_STI" -> 11
      [] op = "OP_JMP" -> 12
      [] op = "OP_RES" -> 13
      [] op = "OP_LEA" -> 14
      [] op = "OP_TRAP" -> 15

\* extract_opcode
extract_opcode(instruction) == from_u16(Shr(instruction, 12))

(***************************************************************************)
(* instruction.rs                                                          *)
(***************************************************************************)
InvalidRegister == -1

\* impl From<u16> for Register: values above 7 panic
Register_from(value) ==
    IF value \in 0 .. 7 THEN value ELSE InvalidRegister

\* sign_extend testing bit bit_count instead of bit bit_count - 1
sign_extend_wrong_bit(x, bit_count) ==
    IF BitAnd(Shr(x, bit_count), 1) # 0
    THEN BitOr(x, Shl(65535, bit_count))
    ELSE x

\* sign_extend
sign_extend(x, bit_count) ==
    IF BitAnd(Shr(x, bit_count - 1), 1) # 0
    THEN BitOr(x, Shl(65535, bit_count))
    ELSE x

\* What a handler hands back: the register file (and memory) as it left them,
\* its Result<(), &'static str> ("Ok" or the Err's message; "panic" when it
\* panicked instead of returning) and the characters it printed.
Panic == "panic"

\* A handler that converted the selectors sels with Register::from and, when
\* none of the conversions panicked, went on to `outcome`.
Converted(sels, outcome) ==
    IF InvalidRegister \in sels
    THEN [outcome EXCEPT !.result = Panic]
    ELSE outcome

\* execute_add taking imm5 as it stands, without sign extension
execute_add_unsigned_imm(raw, rf) ==
    LET dr == BitAnd(Shr(raw, 9), 7)
        sr1 == BitAnd(Shr(raw, 6), 7)
        mode == BitAnd(Shr(raw, 5), 1)
        sr2 == BitAnd(raw, 7)
        val1 == RegisterFile_read(rf, Register_from(sr1))
        val2 == IF mode = 0
                THEN RegisterFile_read(rf, Register_from(sr2))
                ELSE BitAnd(raw, 31)
        result == wrapping_add(val1, val2)
        rf1 == RegisterFile_write(rf, Register_from(dr), result)
        rf2 == update_flags(rf1, result)
    IN  Converted({Register_from(sr1), Register_from(dr)}
                    \cup (IF mode = 0 THEN {Register_from(sr2)} ELSE {}),
                  [registers |-> rf2, result |-> "Ok"])

\* execute_add taking SR2 from four bits of the word
execute_add_wide_sr2(raw, rf) ==
    LET dr == BitAnd(Shr(raw, 9), 7)
        sr1 == BitAnd(Shr(raw, 6), 7)
        mode == BitAnd(Shr(raw, 5), 1)
        sr2 == BitAnd(raw, 15)
        val1 == RegisterFile_read(rf, Register_from(sr1))
        val2 == IF mode = 0
                THEN RegisterFile_read(rf, Register_from(sr2))
                ELSE sign_extend(BitAnd(raw, 31), 5)
        result == wrapping_add(val1, val2)
        rf1 == RegisterFile_write(rf, Register_from(dr), result)
        rf2 == update_flags(rf1, result)
    IN  Converted({Register_from(sr1), Register_from(dr)}
                    \cup (IF mode = 0 THEN {Register_from(sr2)} ELSE {}),
                  [registers |-> rf2, result |-> "Ok"])

\* execute_add
execute_add(raw, rf) ==
    LET dr == BitAnd(Shr(raw, 9), 7)
        sr1 == BitAnd(Shr(raw, 6), 7)
        mode == BitAnd(Shr(raw, 5), 1)
        sr2 == BitAnd(raw, 7)
        val1 == RegisterFile_read(rf, Register_from(sr1))
        val2 == IF mode = 0
                THEN RegisterFile_read(rf, Register_from(sr2))
                ELSE sign_extend(BitAnd(raw, 31), 5)
        result == wrapping_add(val1, val2)
        rf1 == RegisterFile_write(rf, Register_from(dr), result)
        rf2 == update_flags(rf1, result)
    IN  Converted({Register_from(sr1), Register_from(dr)}
                    \cup (IF mode = 0 THEN {Register_from(sr2)} ELSE {}),
                  [registers |-> rf2, result |-> "Ok"])

\* execute_and
execute_and(raw, rf) ==
    LET dr == BitAnd(Shr(raw, 9), 7)
        sr1 == BitAnd(Shr(raw, 6), 7)
        mode == BitAnd(Shr(raw, 5), 1)
        sr2 == BitAnd(raw, 7)
        val1 == RegisterFile_read(rf, Register_from(sr1))
        val2 == IF mode = 0
                THEN RegisterFile_read(rf, Register_from(sr2))
                ELSE sign_extend(BitAnd(raw, 31), 5)
        result == BitAnd(val1, val2)
        rf1 == RegisterFile_write(rf, Register_from(dr), result)
        rf2 == update_flags(rf1, result)
    IN  Converted({Register_from(sr1), Register_from(dr)}
                    \cup (IF mode = 0 THEN {Register_from(sr2)} ELSE {}),
                  [registers |-> rf2, result |-> "Ok"])

\* execute_not
execute_not(raw, rf) ==
    LET dr == BitAnd(Shr(raw, 9), 7)
        sr == BitAnd(Shr(raw, 6), 7)
        val == RegisterFile_read(rf, Register_from(sr))
        result == BitNot(val)
        rf1 == RegisterFile_write(rf, Register_from(dr), result)
        rf2 == update_flags(rf1, result)
    IN  Converted({Register_from(sr), Register_from(dr)},
                  [registers |-> rf2, result |-> "Ok"])

\* execute_br with the n and p bits tested against each other's flag
execute_br_swapped_flags(raw, rf) ==
    LET pc == RegisterFile_read(rf, PC)
        cond == RegisterFile_read(rf, COND)
        n == BitAnd(Shr(raw, 11), 1)
        z == BitAnd(Shr(raw, 10), 1)
        p == BitAnd(Shr(raw, 9), 1)
        pc_offset == sign_extend(BitAnd(raw, 511), 9)
    IN  IF \/ (n = 1 /\ BitAnd(cond, FL_POS) # 0)
           \/ (z = 1 /\ BitAnd(cond, FL_ZRO) # 0)
           \/ (p = 1 /\ BitAnd(cond, FL_NEG) # 0)
        THEN [registers |-> RegisterFile_write(rf, PC, wrapping_add(pc, pc_offset)),
              result |-> "Ok"]
        ELSE [registers |-> rf, result |-> "Ok"]

\* execute_br
execute_br(raw, rf) ==
    LET pc == RegisterFile_read(rf, PC)
        cond == RegisterFile_read(rf, COND)
        n == BitAnd(Shr(raw, 11), 1)
        z == BitAnd(Shr(raw, 10), 1)
        p == BitAnd(Shr(raw, 9), 1)
        pc_offset == sign_extend(BitAnd(raw, 511), 9)
    IN  IF \/ (n = 1 /\ BitAnd(cond, FL_NEG) # 0)
           \/ (z = 1 /\ BitAnd(cond, FL_ZRO) # 0)
           \/ (p = 1 /\ BitAnd(cond, FL_POS) # 0)
        THEN [registers |-> RegisterFile_write(rf, PC, wrapping_add(pc, pc_offset)),
              result |-> "Ok"]
        ELSE [registers |-> rf, result |-> "Ok"]

\* execute_jmp
execute_jmp(raw, rf) ==
    LET base_r == BitAnd(Shr(raw, 6), 7)
        base == RegisterFile_read(rf, Register_from(base_r))
    IN  Converted({Register_from(base_r)},
                  [registers |-> RegisterFile_write(rf, PC, base), result |-> "Ok"])

\* execute_jsr saving the target, not the return address, in R7
execute_jsr_saving_target(raw, rf) ==
    LET pc == RegisterFile_read(rf, PC)
    IN  IF BitAnd(Shr(raw, 11), 1) = 1
        THEN LET target == wrapping_add(pc, sign_extend(BitAnd(raw, 2047), 11))
             IN  [registers |-> RegisterFile_write(RegisterFile_write(rf, R7, target),
                                                   PC, target),
                  result |-> "Ok"]
        ELSE LET base_r == BitAnd(Shr(raw, 6), 7)
                 base == RegisterFile_read(rf, Register_from(base_r))
             IN  Converted({Register_from(base_r)},
                           [registers |-> RegisterFile_write(RegisterFile_write(rf, R7, base),
                                                             PC, base),
                            result |-> "Ok"])

\* execute_jsr: R7 is written first; the JSRR branch reads BaseR after that
execute_jsr(raw, rf) ==
    LET pc == RegisterFile_read(rf, PC)
        rf1 == RegisterFile_write(rf, R7, pc)
    IN  IF BitAnd(Shr(raw, 11), 1) = 1
        THEN LET pc_offset == sign_extend(BitAnd(raw, 2047), 11)
             IN  [registers |-> RegisterFile_write(rf1, PC, wrapping_add(pc, pc_offset)),
                  result |-> "Ok"]
        ELSE LET base_r == BitAnd(Shr(raw, 6), 7)
                 base == RegisterFile_read(rf1, Register_from(base_r))
             IN  Converted({Register_from(base_r)},
                           [registers |-> RegisterFile_write(rf1, PC, base),
                            result |-> "Ok"])

\* execute_ld
execute_ld(raw, rf, mem) ==
    LET dr == BitAnd(Shr(raw, 9), 7)
        pc == RegisterFile_read(rf, PC)
        pc_offset == sign_extend(BitAnd(raw, 511), 9)
        address == wrapping_add(pc, pc_offset)
        val == Memory_read(mem, address)
        rf1 == RegisterFile_write(rf, Register_from(dr), val)
        rf2 == update_flags(rf1, val)
    IN  Converted({Register_from(dr)}, [registers |-> rf2, result |-> "Ok"])

\* execute_ldi without the second read: it loads the pointer, as LD would
execute_ldi_direct(raw, rf, mem) ==
    LET dr == BitAnd(Shr(raw, 9), 7)
        pc == RegisterFile_read(rf, PC)
        pc_offset == sign_extend(BitAnd(raw, 511), 9)
        address == wrapping_add(pc, pc_offset)
        val == Memory_read(mem, address)
        rf1 == RegisterFile_write(rf, Register_from(dr), val)
        rf2 == update_flags(rf1, val)
    IN  Converted({Register_from(dr)}, [registers |-> rf2, result |-> "Ok"])

\* execute_ldi
execute_ldi(raw, rf, mem) ==
    LET dr == BitAnd(Shr(raw, 9), 7)
        pc == RegisterFile_read(rf, PC)
        pc_offset == sign_extend(BitAnd(raw, 511), 9)
        address == wrapping_add(pc, pc_offset)
        indirect_address == Memory_read(mem, address)
        val == Memory_read(mem, indirect_address)
        rf1 == RegisterFile_write(rf, Register_from(dr), val)
        rf2 == update_flags(rf1, val)
    IN  Converted({Register_from(dr)}, [registers |-> rf2, result |-> "Ok"])

\* execute_ldr
execute_ldr(raw, rf, mem) ==
    LET dr == BitAnd(Shr(raw, 9), 7)
        base_r == BitAnd(Shr(raw, 6), 7)
        offset == sign_extend(BitAnd(raw, 63), 6)
        base == RegisterFile_read(rf, Register_from(base_r))
        address == wrapping_add(base, offset)
        val == Memory_read(mem, address)
        rf1 == RegisterFile_write(rf, Register_from(dr), val)
        rf2 == update_flags(rf1, val)
    IN  Converted({Register_from(base_r), Register_from(dr)},
                  [registers |-> rf2, result |-> "Ok"])

\* execute_lea
execute_lea(raw, rf) ==
    LET dr == BitAnd(Shr(raw, 9), 7)
        pc == RegisterFile_read(rf, PC)
        pc_offset == sign_extend(BitAnd(raw, 511), 9)
        address == wrapping_add(pc, pc_offset)
        rf1 == RegisterFile_write(rf, Register_from(dr), address)
        rf2 == update_flags(rf1, address)
    IN  Converted({Register_from(dr)}, [registers |-> rf2, result |-> "Ok"])

\* execute_st writing to a copy of the memory that is then dropped
execute_st_to_copy(raw, rf, mem) ==
    LET sr == BitAnd(Shr(raw, 9), 7)
    IN  Converted({Register_from(sr)},
                  [registers |-> rf, memory |-> mem, result |-> "Ok"])

\* execute_st
execute_st(raw, rf, mem) ==
    LET sr == BitAnd(Shr(raw, 9), 7)
        pc == RegisterFile_read(rf, PC)
        pc_offset == sign_extend(BitAnd(raw, 511), 9)
        address == wrapping_add(pc, pc_offset)
        val == RegisterFile_read(rf, Register_from(sr))
    IN  Converted({Register_from(sr)},
                  [registers |-> rf, memory |-> Memory_write(mem, address, val),
                   result |-> "Ok"])

\* execute_sti
execute_sti(raw, rf, mem) ==
    LET sr == BitAnd(Shr(raw, 9), 7)
        pc == RegisterFile_read(rf, PC)
        pc_offset == sign_extend(BitAnd(raw, 511), 9)
        address == wrapping_add(pc, pc_offset)
        indirect_address == Memory_read(mem, address)
        val == RegisterFile_read(rf, Register_from(sr))
    IN  Converted({Register_from(sr)},
                  [registers |-> rf, memory |-> Memory_write(mem, indirect_address, val),
                   result |-> "Ok"])

\* execute_str writing the word at address and at address + 1
execute_str_two_cells(raw, rf, mem) ==
    LET sr == BitAnd(Shr(raw, 9), 7)
        base_r == BitAnd(Shr(raw, 6), 7)
        offset == sign_extend(BitAnd(raw, 63), 6)
        base == RegisterFile_read(rf, Register_from(base_r))
        address == wrapping_add(base, offset)
        val == RegisterFile_read(rf, Register_from(sr))
    IN  Converted({Register_from(base_r), Register_from(sr)},
                  [registers |-> rf,
                   memory |-> Memory_write(Memory_write(mem, address, val),
                                           wrapping_add(address, 1), val),
                   result |-> "Ok"])

\* execute_str
execute_str(raw, rf, mem) ==
    LET sr == BitAnd(Shr(raw, 9), 7)
        base_r == BitAnd(Shr(raw, 6), 7)
        offset == sign_extend(BitAnd(raw, 63), 6)
        base == RegisterFile_read(rf, Register_from(base_r))
        address == wrapping_add(base, offset)
        val == RegisterFile_read(rf, Register_from(sr))
    IN  Converted({Register_from(base_r), Register_from(sr)},
                  [registers |-> rf, memory |-> Memory_write(mem, address, val),
                   result |-> "Ok"])

(***************************************************************************)
(* Traps.  The console is the environment: env.read_ok says whether the    *)
(* one-byte read_exact on stdin succeeds and env.byte is the byte it then  *)
(* delivers; env.flush_ok says whether flushing stdout succeeds.  out is   *)
(* the sequence of bytes print! wrote to stdout.                           *)
(***************************************************************************)
\* print!("{}", b as u8 as char): the char is U+0000 .. U+00FF and Display
\* writes its UTF-8 encoding, one byte below 0x80 and two bytes from 0x80 on
print_char(b) ==
    IF b < 128 THEN <<b>> ELSE <<192 + Shr(b, 6), 128 + BitAnd(b, 63)>>

\* "Enter a character: "
Prompt == <<69, 110, 116, 101, 114, 32, 97, 32, 99, 104, 97, 114, 97, 99, 116, 101, 114, 58, 32>>

\* io::stdout().flush().map_err(|_| "Failed to flush stdout")?
Flushed(env) == IF env.flush_ok THEN "Ok" ELSE "Failed to flush stdout"

\* trap_getc setting COND from the byte it read
trap_getc_updating_flags(rf, env) ==
    IF env.read_ok
    THEN [registers |-> update_flags(RegisterFile_write(rf, R0, env.byte), env.byte),
          result |-> "Ok", out |-> << >>]
    ELSE [registers |-> rf, result |-> "Failed to read character", out |-> << >>]

\* trap_getc
trap_getc(rf, env) ==
    IF env.read_ok
    THEN [registers |-> RegisterFile_write(rf, R0, env.byte), result |-> "Ok", out |-> << >>]
    ELSE [registers |-> rf, result |-> "Failed to read character", out |-> << >>]

\* trap_out
trap_out(rf, env) ==
    LET char == BitAnd(RegisterFile_read(rf, R0), 255)
    IN  [registers |-> rf, result |-> Flushed(env), out |-> print_char(char)]

RECURSIVE puts_loop(_, _, _, _)
\* the loop of trap_puts from `address`, having printed `out`; `address += 1`
\* is a plain u16 addition
puts_loop(mem, address, out, checks) ==
    LET char == BitAnd(Memory_read(mem, address), 255)
    IN  IF char = 0 THEN [out |-> out, panicked |-> FALSE]
        ELSE IF address + 1 < WordMod
             THEN puts_loop(mem, address + 1, out \o print_char(char), checks)
             ELSE IF checks
                  THEN [out |-> out \o print_char(char), panicked |-> TRUE]
                  ELSE puts_loop(mem, (address + 1) % WordMod, out \o print_char(char), checks)

\* trap_puts
trap_puts(rf, mem, env, checks) ==
    LET scan == puts_loop(mem, RegisterFile_read(rf, R0), << >>, checks)
    IN  [registers |-> rf,
         result |-> IF scan.panicked THEN Panic ELSE Flushed(env),
         out |-> scan.out]

\* trap_in clearing R0 before it reads
trap_in_clearing_r0(rf, env) ==
    IF ~env.flush_ok
    THEN [registers |-> rf, result |-> "Failed to flush stdout", out |-> Prompt]
    ELSE IF env.read_ok
         THEN [registers |-> RegisterFile_write(rf, R0, env.byte), result |-> "Ok",
               out |-> Prompt \o print_char(env.byte) \o <<10>>]
         ELSE [registers |-> RegisterFile_write(rf, R0, 0),
               result |-> "Failed to read character", out |-> Prompt]

\* trap_in
trap_in(rf, env) ==
    IF ~env.flush_ok
    THEN [registers |-> rf, result |-> "Failed to flush stdout", out |-> Prompt]
    ELSE IF env.read_ok
         THEN [registers |-> RegisterFile_write(rf, R0, env.byte), result |-> "Ok",
               out |-> Prompt \o print_char(env.byte) \o <<10>>]
         ELSE [registers |-> rf, result |-> "Failed to read character", out |-> Prompt]

RECURSIVE putsp_loop(_, _, _, _)
\* the loop of trap_putsp
putsp_loop(mem, address, out, checks) ==
    LET word == Memory_read(mem, address)
        char1 == BitAnd(word, 255)
        char2 == BitAnd(Shr(word, 8), 255)
    IN  IF char1 = 0 THEN [out |-> out, panicked |-> FALSE]
        ELSE IF char2 = 0 THEN [out |-> out \o print_char(char1), panicked |-> FALSE]
        ELSE IF address + 1 < WordMod
             THEN putsp_loop(mem, address + 1,
                             out \o print_char(char1) \o print_char(char2), checks)
             ELSE IF checks
                  THEN [out |-> out \o print_char(char1) \o print_char(char2),
                        panicked |-> TRUE]
                  ELSE putsp_loop(mem, (address + 1) % WordMod,
                                  out \o print_char(char1) \o print_char(char2), checks)

\* trap_putsp
trap_putsp(rf, mem, env, checks) ==
    LET scan == putsp_loop(mem, RegisterFile_read(rf, R0), << >>, checks)
    IN  [registers |-> rf,
         result |-> IF scan.panicked THEN Panic ELSE Flushed(env),
         out |-> scan.out]

\* trap_halt returning Ok(())
trap_halt_ok == "Ok"

\* trap_halt
trap_halt == "HALT"

\* execute_trap taking every vector from 0x25 up as HALT
execute_trap_halt_above(raw, rf, mem, env, checks) ==
    LET trapvect8 == BitAnd(raw, 255)
    IN  CASE trapvect8 = 32 -> trap_getc(rf, env)
          [] trapvect8 = 33 -> trap_out(rf, env)
          [] trapvect8 = 34 -> trap_puts(rf, mem, env, checks)
          [] trapvect8 = 35 -> trap_in(rf, env)
          [] trapvect8 = 36 -> trap_putsp(rf, mem, env, checks)
          [] trapvect8 >= 37 -> [registers |-> rf, result |-> trap_halt, out |-> << >>]
          [] OTHER -> [registers |-> rf, result |-> "Unknown TRAP vector", out |-> << >>]

\* execute_trap
execute_trap(raw, rf, mem, env, checks) ==
    LET trapvect8 == BitAnd(raw, 255)
    IN  CASE trapvect8 = 32 -> trap_getc(rf, env)
          [] trapvect8 = 33 -> trap_out(rf, env)
          [] trapvect8 = 34 -> trap_puts(rf, mem, env, checks)
          [] trapvect8 = 35 -> trap_in(rf, env)
          [] trapvect8 = 36 -> trap_putsp(rf, mem, env, checks)
          [] trapvect8 = 37 -> [registers |-> rf, result |-> trap_halt, out |-> << >>]
          [] OTHER -> [registers |-> rf, result |-> "Unknown TRAP vector", out |-> << >>]

\* A handler that is given the registers only (or the memory by shared
\* reference) leaves the memory as it is and prints nothing.
RegsOnly(o, mem) ==
    [registers |-> o.registers, memory |-> mem, result |-> o.result, out |-> << >>]

\* A store handler (memory by mutable reference) prints nothing.
Stored(o) ==
    [registers |-> o.registers, memory |-> o.memory, result |-> o.result, out |-> << >>]

\* A trap reads the memory and may print.
Trapped(o, mem) ==
    [registers |-> o.registers, memory |-> mem, result |-> o.result, out |-> o.out]

\* execute with unimplemented!() in the RTI arm: a panic, not an Err
execute_rti_unimplemented(raw, rf, mem, env, checks) ==
    LET opcode == extract_opcode(raw)
    IN  CASE opcode = None ->
               [registers |-> rf, memory |-> mem, result |-> "Unknown opcode", out |-> << >>]
          [] opcode = "OP_ADD" -> RegsOnly(execute_add(raw, rf), mem)
          [] opcode = "OP_AND" -> RegsOnly(execute_and(raw, rf), mem)
          [] opcode = "OP_NOT" -> RegsOnly(execute_not(raw, rf), mem)
          [] opcode = "OP_BR" -> RegsOnly(execute_br(raw, rf), mem)
          [] opcode = "OP_JMP" -> RegsOnly(execute_jmp(raw, rf), mem)
          [] opcode = "OP_JSR" -> RegsOnly(execute_jsr(raw, rf), mem)
          [] opcode = "OP_LD" -> RegsOnly(execute_ld(raw, rf, mem), mem)
          [] opcode = "OP_LDI" -> RegsOnly(execute_ldi(raw, rf, mem), mem)
          [] opcode = "OP_LDR" -> RegsOnly(execute_ldr(raw, rf, mem), mem)
          [] opcode = "OP_LEA" -> RegsOnly(execute_lea(raw, rf), mem)
          [] opcode = "OP_ST" -> Stored(execute_st(raw, rf, mem))
          [] opcode = "OP_STI" -> Stored(execute_sti(raw, rf, mem))
          [] opcode = "OP_STR" -> Stored(execute_str(raw, rf, mem))
          [] opcode = "OP_TRAP" -> Trapped(execute_trap(raw, rf, mem, env, checks), mem)
          [] opcode = "OP_RES" ->
               [registers |-> rf, memory |-> mem, result |-> "Reserved opcode", out |-> << >>]
          [] opcode = "OP_RTI" ->
               [registers |-> rf, memory |-> mem, result |-> Panic, out |-> << >>]

\* execute
execute(raw, rf, mem, env, checks) ==
    LET opcode == extract_opcode(raw)
    IN  CASE opcode = None ->
               [registers |-> rf, memory |-> mem, result |-> "Unknown opcode", out |-> << >>]
          [] opcode = "OP_ADD" -> RegsOnly(execute_add(raw, rf), mem)
          [] opcode = "OP_AND" -> RegsOnly(execute_and(raw, rf), mem)
          [] opcode = "OP_NOT" -> RegsOnly(execute_not(raw, rf), mem)
          [] opcode = "OP_BR" -> RegsOnly(execute_br(raw, rf), mem)
          [] opcode = "OP_JMP" -> RegsOnly(execute_jmp(raw, rf), mem)
          [] opcode = "OP_JSR" -> RegsOnly(execute_jsr(raw, rf), mem)
          [] opcode = "OP_LD" -> RegsOnly(execute_ld(raw, rf, mem), mem)
          [] opcode = "OP_LDI" -> RegsOnly(execute_ldi(raw, rf, mem), mem)
          [] opcode = "OP_LDR" -> RegsOnly(execute_ldr(raw, rf, mem), mem)
          [] opcode = "OP_LEA" -> RegsOnly(execute_lea(raw, rf), mem)
          [] opcode = "OP_ST" -> Stored(execute_st(raw, rf, mem))
          [] opcode = "OP_STI" -> Stored(execute_sti(raw, rf, mem))
          [] opcode = "OP_STR" -> Stored(execute_str(raw, rf, mem))
          [] opcode = "OP_TRAP" -> Trapped(execute_trap(raw, rf, mem, env, checks), mem)
          [] opcode = "OP_RES" ->
               [registers |-> rf, memory |-> mem, result |-> "Reserved opcode", out |-> << >>]
          [] opcode = "OP_RTI" ->
               [registers |-> rf, memory |-> mem, result |-> "RTI not implemented", out |-> << >>]

(***************************************************************************)
(* The console the machine may meet.                                       *)
(***************************************************************************)
InBytes == {0, 65, 255}

Consoles == [read_ok : BOOLEAN, byte : InBytes, flush_ok : BOOLEAN]

QuietConsole == [read_ok |-> TRUE, byte |-> 0, flush_ok |-> TRUE]

\* The consoles that make a difference to `raw`: only a TRAP touches the console.
ConsolesFor(raw) ==
    IF extract_opcode(raw) = "OP_TRAP" THEN Consoles ELSE {QuietConsole}

(***************************************************************************)
(* utils.rs and main.rs                                                    *)
(***************************************************************************)
\* u16::from_be_bytes
from_be_bytes(hi, lo) == hi * 256 + lo

RECURSIVE load_loop(_, _, _, _, _)
\* the `while i < buffer.len()` loop of load_obj_file; i is the 0-based index
\* of the source, `address += 1` a plain u16 addition
load_loop(buffer, i, address, mem, checks) ==
    IF i < Len(buffer) /\ i + 1 < Len(buffer)
    THEN LET instruction == from_be_bytes(buffer[i + 1], buffer[i + 2])
             mem1 == Memory_write(mem, address, instruction)
         IN  IF address + 1 < WordMod
             THEN load_loop(buffer, i + 2, address + 1, mem1, checks)
             ELSE IF checks
                  THEN [memory |-> mem1, panicked |-> TRUE]
                  ELSE load_loop(buffer, i + 2, (address + 1) % WordMod, mem1, checks)
    ELSE [memory |-> mem, panicked |-> FALSE]

\* load_obj_file, on the bytes read from the file
load_obj_file(buffer, mem, checks) ==
    LET origin == IF Len(buffer) >= 2 THEN from_be_bytes(buffer[1], buffer[2]) ELSE 12288
        i == IF Len(buffer) >= 2 THEN 2 ELSE 0
        loaded == load_loop(buffer, i, origin, mem, checks)
    IN  [memory |-> loaded.memory, origin |-> origin, panicked |-> loaded.panicked]

\* No execute call yet.
NoCall ==
    [called |-> FALSE, raw |-> 0, pc0 |-> 0, registers |-> RegisterFile_new,
     memory |-> Memory_new, console |-> QuietConsole, result |-> "Ok", out |-> << >>]

\* The `match execute(..)` of execute_program on execute's outcome o: `ret` is
\* "running" when the loop goes on, and otherwise what execute_program
\* returns ("Ok" for Ok(()), the message of an Err) or "panic".
match_execute(o, raw_instruction, pc, rf1, mem, env) ==
    [registers |-> o.registers, memory |-> o.memory,
     ret |-> CASE o.result = "Ok" -> "running"
               [] o.result = "HALT" -> "Ok"
               [] OTHER -> o.result,
     call |-> [called |-> TRUE, raw |-> raw_instruction, pc0 |-> pc,
               registers |-> rf1, memory |-> mem, console |-> env,
               result |-> o.result, out |-> o.out]]

\* The loop body once the word at pc is fetched: increment the PC, decode,
\* execute.
fetched_at(pc, raw_instruction, rf1, mem, env, checks) ==
    IF extract_opcode(raw_instruction) # None
    THEN match_execute(execute(raw_instruction, rf1, mem, env, checks),
                       raw_instruction, pc, rf1, mem, env)
    ELSE [registers |-> rf1, memory |-> mem, ret |-> "Invalid instruction",
          call |-> NoCall]

\* The loop body handing execute the PC before its increment
loop_iteration_late_increment(rf, mem, env, checks) ==
    fetched_at(RegisterFile_read(rf, PC),
               Memory_read(mem, RegisterFile_read(rf, PC)),
               rf, mem, env, checks)

\* The loop body incrementing the PC with a plain, unreduced + 1
loop_iteration_unwrapped_pc(rf, mem, env, checks) ==
    fetched_at(RegisterFile_read(rf, PC),
               Memory_read(mem, RegisterFile_read(rf, PC)),
               RegisterFile_write(rf, PC, RegisterFile_read(rf, PC) + 1),
               mem, env, checks)

\* One iteration of the loop of execute_program.
loop_iteration(rf, mem, env, checks) ==
    fetched_at(RegisterFile_read(rf, PC),
               Memory_read(mem, RegisterFile_read(rf, PC)),
               RegisterFile_write(rf, PC, wrapping_add(RegisterFile_read(rf, PC), 1)),
               mem, env, checks)

(***************************************************************************)
(* Assembling instruction words (the formats of opcode.rs).                *)
(***************************************************************************)
Enc(op, rest) == to_u16(op) * 4096 + rest
AsmBR(nzp, off9) == Enc("OP_BR", nzp * 512 + off9)
AsmADDr(dr, sr1, sr2) == Enc("OP_ADD", dr * 512 + sr1 * 64 + sr2)
AsmADDi(dr, sr1, imm5) == Enc("OP_ADD", dr * 512 + sr1 * 64 + 32 + imm5)
AsmANDr(dr, sr1, sr2) == Enc("OP_AND", dr * 512 + sr1 * 64 + sr2)
AsmANDi(dr, sr1, imm5) == Enc("OP_AND", dr * 512 + sr1 * 64 + 32 + imm5)
AsmNOT(dr, sr) == Enc("OP_NOT", dr * 512 + sr * 64 + 63)
AsmJMP(base_r) == Enc("OP_JMP", base_r * 64)
AsmJSR(off11) == Enc("OP_JSR", 2048 + off11)
AsmJSRR(base_r) == Enc("OP_JSR", base_r * 64)
AsmLD(dr, off9) == Enc("OP_LD", dr * 512 + off9)
AsmLDI(dr, off9) == Enc("OP_LDI", dr * 512 + off9)
AsmLDR(dr, base_r, off6) == Enc("OP_LDR", dr * 512 + base_r * 64 + off6)
AsmLEA(dr, off9) == Enc("OP_LEA", dr * 512 + off9)
AsmST(sr, off9) == Enc("OP_ST", sr * 512 + off9)
AsmSTI(sr, off9) == Enc("OP_STI", sr * 512 + off9)
AsmSTR(sr, base_r, off6) == Enc("OP_STR", sr * 512 + base_r * 64 + off6)
AsmTRAP(trapvect8) == Enc("OP_TRAP", trapvect8)
AsmRTI == Enc("OP_RTI", 0)
AsmRES == Enc("OP_RES", 0)

(***************************************************************************)
(* Spec: the machine as main runs it.  main builds a fresh Memory and      *)
(* RegisterFile, loads the object file, seeds the PC with the origin and   *)
(* calls execute_program.                                                  *)
(***************************************************************************)
MaxSteps == 5

\* u16::to_be_bytes, the inverse of the loader's from_be_bytes
to_be_bytes(w) == <<w \div 256, w % 256>>

RECURSIVE WordsBytes(_)
WordsBytes(words) ==
    IF words = << >> THEN << >>
    ELSE to_be_bytes(Head(words)) \o WordsBytes(Tail(words))

\* An object file: the origin, then the words, all big-endian.
ObjFile(origin, words) == to_be_bytes(origin) \o WordsBytes(words)

\* -k as a field of `bits` bits
Neg(k, bits) == (2 ^ bits) - k

ProgramPool ==
    { AsmADDi(R0, R0, Neg(1, 5)), AsmADDi(R1, R1, 1), AsmANDi(R0, R0, 0), AsmNOT(R0, R0),
      AsmBR(7, Neg(1, 9)), AsmBR(7, Neg(2, 9)), AsmBR(2, 1), AsmBR(0, 1),
      AsmJMP(R7), AsmJSR(0), AsmJSRR(R7), AsmJSRR(R0),
      AsmLD(R0, Neg(1, 9)), AsmLDI(R3, Neg(1, 9)), AsmLDR(R0, R1, 0),
      AsmLEA(R0, Neg(2, 9)), AsmLEA(R0, 0),
      AsmST(R0, 0), AsmSTI(R0, Neg(1, 9)), AsmSTR(R0, R0, 0),
      AsmTRAP(32), AsmTRAP(33), AsmTRAP(34), AsmTRAP(35), AsmTRAP(36), AsmTRAP(37),
      AsmTRAP(38), AsmRTI, AsmRES }

Programs ==
    { <<a, b>> : a \in ProgramPool, b \in ProgramPool }
    \cup { << >>,
           <<AsmADDi(R0, R0, Neg(1, 5)), AsmSTR(R0, R0, 0), AsmTRAP(34)>>,
           <<AsmADDi(R0, R0, Neg(1, 5)), AsmSTR(R0, R0, 0), AsmTRAP(36)>>,
           <<AsmLEA(R1, 1), AsmSTR(R0, R1, 1), AsmTRAP(37)>>,
           <<AsmLD(R0, 2), AsmST(R0, 0), AsmBR(0, 0), AsmTRAP(37)>>,
           <<AsmJSR(1), AsmTRAP(37), AsmJMP(R7)>>,
           <<AsmJSR(2), AsmTRAP(37), AsmTRAP(38), AsmADDi(R1, R1, 1), AsmJMP(R7)>> }

Origins == {12288, 65534}

ObjFiles ==
    { ObjFile(origin, words) : origin \in Origins, words \in Programs }
    \cup { << >>, <<48>>, ObjFile(12288, <<AsmTRAP(37)>>) \o <<1>> }

Init ==
    /\ registers = RegisterFile_new
    /\ memory = Memory_new
    /\ overflow_checks \in BOOLEAN
    /\ status = "start"
    /\ steps = 0
    /\ last = NoCall
    /\ arg \in ObjFiles
    /\ ret = None

\* main, up to the call of execute_program
Load ==
    /\ status = "start"
    /\ LET loaded == load_obj_file(arg, memory, overflow_checks)
       IN  /\ memory' = loaded.memory
           /\ IF loaded.panicked
              THEN /\ status' = "load panic"
                   /\ UNCHANGED registers
              ELSE /\ status' = "running"
                   /\ registers' = RegisterFile_write(registers, PC, loaded.origin)
    /\ UNCHANGED <<overflow_checks, steps, last, arg, ret>>

\* The word the loop fetches next.
Fetched == Memory_read(memory, RegisterFile_read(registers, PC))

\* The machine after an iteration that left `it`.
Iterated(it) ==
    /\ registers' = it.registers
    /\ memory' = it.memory
    /\ status' = it.ret
    /\ last' = it.call

\* One iteration of execute_program's loop.
Iteration ==
    /\ status = "running"
    /\ steps < MaxSteps
    /\ \E env \in ConsolesFor(Fetched) :
         Iterated(loop_iteration(registers, memory, env, overflow_checks))
    /\ steps' = steps + 1
    /\ UNCHANGED <<overflow_checks, arg, ret>>

\* The iteration, by the arm of execute's match it takes.
StepBR == extract_opcode(Fetched) = "OP_BR" /\ Iteration
StepADD == extract_opcode(Fetched) = "OP_ADD" /\ Iteration
StepLD == extract_opcode(Fetched) = "OP_LD" /\ Iteration
StepST == extract_opcode(Fetched) = "OP_ST" /\ Iteration
StepJSR == extract_opcode(Fetched) = "OP_JSR" /\ Iteration
StepAND == extract_opcode(Fetched) = "OP_AND" /\ Iteration
StepLDR == extract_opcode(Fetched) = "OP_LDR" /\ Iteration
StepSTR == extract_opcode(Fetched) = "OP_STR" /\ Iteration
StepRTI == extract_opcode(Fetched) = "OP_RTI" /\ Iteration
StepNOT == extract_opcode(Fetched) = "OP_NOT" /\ Iteration
StepLDI == extract_opcode(Fetched) = "OP_LDI" /\ Iteration
StepSTI == extract_opcode(Fetched) = "OP_STI" /\ Iteration
StepJMP == extract_opcode(Fetched) = "OP_JMP" /\ Iteration
StepRES == extract_opcode(Fetched) = "OP_RES" /\ Iteration
StepLEA == extract_opcode(Fetched) = "OP_LEA" /\ Iteration
StepTRAP == extract_opcode(Fetched) = "OP_TRAP" /\ Iteration

Next ==
    \/ Load
    \/ StepBR
    \/ StepADD
    \/ StepLD
    \/ StepST
    \/ StepJSR
    \/ StepAND
    \/ StepLDR
    \/ StepSTR
    \/ StepRTI
    \/ StepNOT
    \/ StepLDI
    \/ StepSTI
    \/ StepJMP
    \/ StepRES
    \/ StepLEA
    \/ StepTRAP

Spec == Init /\ [][Next]_vars

(***************************************************************************)
(* SpecExec: one direct call of execute on a machine a caller prepared     *)
(* with RegisterFile::write and Memory::write (as instruction_test.rs      *)
(* does).  arg is the raw instruction.                                     *)
(***************************************************************************)
ExecPool ==
    { AsmADDr(dr, sr1, sr2) : dr \in {R0, R2, R7}, sr1 \in {R0, R1}, sr2 \in {R0, R1, R7} }
    \cup { AsmADDi(dr, sr1, imm5) : dr \in {R0, R2}, sr1 \in {R0, R1}, imm5 \in {0, 1, 15, 16, 31} }
    \cup { AsmADDr(R2, R0, R1) + 24 }
    \cup { AsmANDr(dr, R0, sr2) : dr \in {R0, R2}, sr2 \in {R0, R1} }
    \cup { AsmANDi(R2, sr1, imm5) : sr1 \in {R0, R1}, imm5 \in {0, 15, 31} }
    \cup { AsmNOT(dr, sr) : dr \in {R0, R2}, sr \in {R0, R1} }
    \cup { AsmBR(nzp, off9) : nzp \in 0 .. 7, off9 \in {0, 1, 255, 256, 511} }
    \cup { AsmJMP(base_r) : base_r \in {R0, R1, R7} }
    \cup { AsmJSR(off11) : off11 \in {0, 1, 1023, 1024, 2047} }
    \cup { AsmJSRR(base_r) : base_r \in {R0, R1, R7} }
    \cup { AsmLD(dr, off9) : dr \in {R0, R3}, off9 \in {0, 1, 2, 256, 511} }
    \cup { AsmLDI(dr, off9) : dr \in {R0, R3}, off9 \in {0, 1, 2, 256, 511} }
    \cup { AsmLDR(dr, base_r, off6) : dr \in {R0, R3}, base_r \in {R0, R1}, off6 \in {0, 1, 32, 63} }
    \cup { AsmLEA(dr, off9) : dr \in {R0, R3}, off9 \in {0, 1, 255, 256, 511} }
    \cup { AsmST(sr, off9) : sr \in {R0, R1}, off9 \in {0, 1, 256, 511} }
    \cup { AsmSTI(sr, off9) : sr \in {R0, R1}, off9 \in {0, 1, 256, 511} }
    \cup { AsmSTR(sr, base_r, off6) : sr \in {R0, R1}, base_r \in {R0, R1}, off6 \in {0, 1, 32, 63} }
    \cup { AsmTRAP(v) : v \in {0, 31, 32, 33, 34, 35, 36, 37, 38, 255} }
    \cup { AsmTRAP(37) + 256 }
    \cup { AsmRTI, AsmRTI + 4095, AsmRES, AsmRES + 2748 }

ExecRegisterFiles ==
    { [registers |-> [i \in 0 .. (R_COUNT - 1) |->
                        CASE i = R0 -> r0 [] i = R1 -> r1 [] i = R7 -> 16384 [] OTHER -> 0],
       pc |-> pc, cond |-> cond] :
      r0 \in {0, 5, 12288, 65535}, r1 \in {1, 10, 32767},
      pc \in {12288, 65535}, cond \in {0, FL_POS, FL_ZRO, FL_NEG} }

ExecMemories ==
    { Memory_new,
      (12288 :> 12290) @@ (12289 :> 32769) @@ (12290 :> 16962),
      (65535 :> 65) @@ (0 :> 17218) @@ (1 :> 68) @@ (12288 :> 25928) @@ (12289 :> 108)
        @@ (5 :> 19456),
      (65535 :> 16961) @@ (0 :> 233) @@ (12288 :> 26952) @@ (12289 :> 33) }

InitExec ==
    /\ registers \in ExecRegisterFiles
    /\ memory \in ExecMemories
    /\ overflow_checks \in BOOLEAN
    /\ status = "call"
    /\ steps = 0
    /\ last = NoCall
    /\ arg \in ExecPool
    /\ ret = None

\* The machine after execute returned (or panicked with) o.
Executed(o, env) ==
    /\ registers' = o.registers
    /\ memory' = o.memory
    /\ ret' = o.result
    /\ last' = [called |-> TRUE, raw |-> arg, pc0 |-> RegisterFile_read(registers, PC),
                registers |-> registers, memory |-> memory, console |-> env,
                result |-> o.result, out |-> o.out]

\* execute(arg, &mut registers, &mut memory)
Call ==
    /\ status = "call"
    /\ status' = "called"
    /\ \E env \in ConsolesFor(arg) :
         Executed(execute(arg, registers, memory, env, overflow_checks), env)
    /\ UNCHANGED <<overflow_checks, steps, arg>>

\* The call, by the arm of execute's match it takes.
CallBR == extract_opcode(arg) = "OP_BR" /\ Call
CallADD == extract_opcode(arg) = "OP_ADD" /\ Call
CallLD == extract_opcode(arg) = "OP_LD" /\ Call
CallST == extract_opcode(arg) = "OP_ST" /\ Call
CallJSR == extract_opcode(arg) = "OP_JSR" /\ Call
CallAND == extract_opcode(arg) = "OP_AND" /\ Call
CallLDR == extract_opcode(arg) = "OP_LDR" /\ Call
CallSTR == extract_opcode(arg) = "OP_STR" /\ Call
CallRTI == extract_opcode(arg) = "OP_RTI" /\ Call
CallNOT == extract_opcode(arg) = "OP_NOT" /\ Call
CallLDI == extract_opcode(arg) = "OP_LDI" /\ Call
CallSTI == extract_opcode(arg) = "OP_STI" /\ Call
CallJMP == extract_opcode(arg) = "OP_JMP" /\ Call
CallRES == extract_opcode(arg) = "OP_RES" /\ Call
CallLEA == extract_opcode(arg) = "OP_LEA" /\ Call
CallTRAP == extract_opcode(arg) = "OP_TRAP" /\ Call

NextExec ==
    \/ CallBR
    \/ CallADD
    \/ CallLD
    \/ CallST
    \/ CallJSR
    \/ CallAND
    \/ CallLDR
    \/ CallSTR
    \/ CallRTI
    \/ CallNOT
    \/ CallLDI
    \/ CallSTI
    \/ CallJMP
    \/ CallRES
    \/ CallLEA
    \/ CallTRAP

SpecExec == InitExec /\ [][NextExec]_vars

(***************************************************************************)
(* SpecFlags: one call of RegisterFile::update_flags, for every u16 value, *)
(* on register files whose COND holds no flag, one flag or several.  arg   *)
(* is the value.                                                           *)
(***************************************************************************)
FlagsRegisterFiles ==
    { [registers |-> [i \in 0 .. (R_COUNT - 1) |-> 4096 + i], pc |-> 12288, cond |-> cond] :
      cond \in {0, FL_NEG, FL_POS + FL_ZRO + FL_NEG} }

InitFlags ==
    /\ registers \in FlagsRegisterFiles
    /\ memory = (12288 :> 4660)
    /\ overflow_checks = FALSE
    /\ status = "call"
    /\ steps = 0
    /\ last = NoCall
    /\ arg \in Word
    /\ ret = None

\* registers.update_flags(arg)
CallUpdateFlags ==
    /\ status = "call"
    /\ status' = "called"
    /\ registers' = update_flags(registers, arg)
    /\ last' = [NoCall EXCEPT !.called = TRUE, !.registers = registers, !.memory = memory]
    /\ UNCHANGED <<memory, overflow_checks, steps, arg, ret>>

NextFlags == CallUpdateFlags

SpecFlags == InitFlags /\ [][NextFlags]_vars

(***************************************************************************)
(* SpecSext: one call of sign_extend, for every field width the handlers   *)
(* use and every field value of that width.  arg is <<x, bit_count>>.      *)
(***************************************************************************)
FieldWidths == {5, 6, 9, 11}

InitSext ==
    /\ registers = RegisterFile_new
    /\ memory = Memory_new
    /\ overflow_checks = FALSE
    /\ status = "call"
    /\ steps = 0
    /\ last = NoCall
    /\ arg \in { <<x, n>> : x \in 0 .. 2047, n \in FieldWidths }
    /\ arg[1] < 2 ^ arg[2]
    /\ ret = None

\* sign_extend(x, bit_count)
CallSignExtend ==
    /\ status = "call"
    /\ status' = "called"
    /\ ret' = sign_extend(arg[1], arg[2])
    /\ UNCHANGED <<registers, memory, overflow_checks, steps, last, arg>>

NextSext == CallSignExtend

SpecSext == InitSext /\ [][NextSext]_vars

(***************************************************************************)
(* SpecWords: every 16-bit word, decoded (extract_opcode, from_u16),       *)
(* executed by a direct call of execute, and fetched and executed by one   *)
(* iteration of execute_program's loop, on one prepared machine whose      *)
(* memory holds the word at the PC.  arg is the word.                      *)
(***************************************************************************)
WordsRegisterFile ==
    [registers |-> [i \in 0 .. (R_COUNT - 1) |-> IF i = R0 THEN 16384 ELSE 4096 + i],
     pc |-> 12288, cond |-> FL_NEG]

WordsMemory == (16384 :> 72) @@ (16385 :> 26953) @@ (12289 :> 16384)

InitWords ==
    /\ registers = WordsRegisterFile
    /\ overflow_checks \in BOOLEAN
    /\ status = "word"
    /\ steps = 0
    /\ last = NoCall
    /\ arg \in Word
    /\ memory = Memory_write(WordsMemory, RegisterFile_read(WordsRegisterFile, PC), arg)
    /\ ret = None

\* extract_opcode(arg)
WordExtract ==
    /\ status = "word"
    /\ status' = "extracted"
    /\ ret' = extract_opcode(arg)
    /\ UNCHANGED <<registers, memory, overflow_checks, steps, last, arg>>

\* Opcode::from_u16(arg)
WordFrom ==
    /\ status = "word"
    /\ status' = "converted"
    /\ ret' = from_u16(arg)
    /\ UNCHANGED <<registers, memory, overflow_checks, steps, last, arg>>

\* execute(arg, &mut registers, &mut memory)
WordExecute ==
    /\ status = "word"
    /\ status' = "executed"
    /\ \E env \in ConsolesFor(arg) :
         Executed(execute(arg, registers, memory, env, overflow_checks), env)
    /\ UNCHANGED <<overflow_checks, steps, arg>>

\* The machine after one loop iteration that left `it`: ret is what
\* execute_program returns, or "running".
WordIterated(it) ==
    /\ registers' = it.registers
    /\ memory' = it.memory
    /\ ret' = it.ret
    /\ last' = it.call

\* one iteration of execute_program's loop, fetching arg
WordIterate ==
    /\ status = "word"
    /\ status' = "iterated"
    /\ \E env \in ConsolesFor(arg) :
         WordIterated(loop_iteration(registers, memory, env, overflow_checks))
    /\ UNCHANGED <<overflow_checks, steps, arg>>

NextWords ==
    \/ WordExtract
    \/ WordFrom
    \/ WordExecute
    \/ WordIterate

SpecWords == InitWords /\ [][NextWords]_vars

(***************************************************************************)
(* SpecMemory: a Memory from Memory::new on, written, read and cleared.    *)
(* The addresses are sums a caller made with wrapping_add.  last.log is    *)
(* the sequence of <<address, value>> written since new or the last clear, *)
(* last.memory the memory before the last operation, arg that operation's  *)
(* arguments and ret what a read returned.                                 *)
(***************************************************************************)
MaxMemoryOps == 3

MemoryBases == {12288, 65535}

MemoryOffsets == {0, 1}

MemoryValues == {0, 4660, 65535}

InitMemory ==
    /\ registers = RegisterFile_new
    /\ memory = Memory_new
    /\ overflow_checks = FALSE
    /\ status = "new"
    /\ steps = 0
    /\ last = [log |-> << >>, memory |-> Memory_new]
    /\ arg = << >>
    /\ ret = None

\* memory.write(base.wrapping_add(offset), value)
MemoryWrite ==
    /\ steps < MaxMemoryOps
    /\ \E base \in MemoryBases, offset \in MemoryOffsets, value \in MemoryValues :
         /\ memory' = Memory_write(memory, wrapping_add(base, offset), value)
         /\ arg' = <<wrapping_add(base, offset), value>>
         /\ last' = [log |-> Append(last.log, <<wrapping_add(base, offset), value>>),
                     memory |-> memory]
    /\ status' = "written"
    /\ steps' = steps + 1
    /\ UNCHANGED <<registers, overflow_checks, ret>>

\* memory.read(base.wrapping_add(offset))
MemoryRead ==
    /\ steps < MaxMemoryOps
    /\ \E base \in MemoryBases, offset \in MemoryOffsets :
         /\ ret' = Memory_read(memory, wrapping_add(base, offset))
         /\ arg' = <<wrapping_add(base, offset)>>
    /\ last' = [last EXCEPT !.memory = memory]
    /\ status' = "read"
    /\ steps' = steps + 1
    /\ UNCHANGED <<registers, memory, overflow_checks>>

\* memory.clear()
MemoryClear ==
    /\ steps < MaxMemoryOps
    /\ memory' = Memory_clear(memory)
    /\ arg' = << >>
    /\ last' = [log |-> << >>, memory |-> memory]
    /\ status' = "cleared"
    /\ steps' = steps + 1
    /\ UNCHANGED <<registers, overflow_checks, ret>>

NextMemory ==
    \/ MemoryWrite
    \/ MemoryRead
    \/ MemoryClear

SpecMemory == InitMemory /\ [][NextMemory]_vars

(***************************************************************************)
(* SpecRegisters: a RegisterFile from RegisterFile::new on, written and    *)
(* read at its ten locations.  last.log is the sequence of <<register,     *)
(* value>> written, last.registers the file before the last operation, arg *)
(* that operation's arguments and ret what a read returned.                *)
(***************************************************************************)
MaxRegisterOps == 3

Registers == GeneralRegisters \cup {PC, COND}

RegisterValues == {0, 4660, 65535}

InitRegisters ==
    /\ registers = RegisterFile_new
    /\ memory = Memory_new
    /\ overflow_checks = FALSE
    /\ status = "new"
    /\ steps = 0
    /\ last = [log |-> << >>, registers |-> RegisterFile_new]
    /\ arg = << >>
    /\ ret = None

\* registers.write(register, value)
RegisterWrite ==
    /\ steps < MaxRegisterOps
    /\ \E register \in Registers, value \in RegisterValues :
         /\ registers' = RegisterFile_write(registers, register, value)
         /\ arg' = <<register, value>>
         /\ last' = [log |-> Append(last.log, <<register, value>>),
                     registers |-> registers]
    /\ status' = "written"
    /\ steps' = steps + 1
    /\ UNCHANGED <<memory, overflow_checks, ret>>

\* registers.read(register)
RegisterRead ==
    /\ steps < MaxRegisterOps
    /\ \E register \in Registers :
         /\ ret' = RegisterFile_read(registers, register)
         /\ arg' = <<register>>
    /\ last' = [last EXCEPT !.registers = registers]
    /\ status' = "read"
    /\ steps' = steps + 1
    /\ UNCHANGED <<registers, memory, overflow_checks>>

NextRegisters ==
    \/ RegisterWrite
    \/ RegisterRead

SpecRegisters == InitRegisters /\ [][NextRegisters]_vars

(***************************************************************************)
(* The instruction set, stated arithmetically (the reference the claims    *)
(* compare the handlers with).                                             *)
(***************************************************************************)
\* bits lo .. lo+width-1 of raw
Field(raw, lo, width) == (raw \div (2 ^ lo)) % (2 ^ width)

\* the 16-bit two's-complement word of the signed value of the n-bit field v
SignedField(v, n) == IF v >= 2 ^ (n - 1) THEN v + (2 ^ 16) - (2 ^ n) ELSE v

\* the one flag that describes the word v
FlagOf(v) == IF v = 0 THEN FL_ZRO ELSE IF v >= 32768 THEN FL_NEG ELSE FL_POS

Flags == {FL_NEG, FL_ZRO, FL_POS}

\* The general registers other than dr are as the call found them.
OthersKept(dr) ==
    \A r \in GeneralRegisters \ {dr} : registers.registers[r] = last.registers.registers[r]

\* an execute call on an instruction of opcode number op has returned
Ran(op) == last.called /\ Field(last.raw, 12, 4) = op

(***************************************************************************)
(* C1: in every reachable state of the machine main starts (fresh          *)
(* RegisterFile and Memory, a loaded program, the PC seeded, any number of *)
(* loop iterations) COND holds exactly one of Negative, Zero, Positive.    *)
(* RegisterFile::new sets cond to 0, which is none of them.                *)
(***************************************************************************)
C1_CondHoldsOneFlag == registers.cond \in Flags

(***************************************************************************)
(* C2: JSRR (opcode 0100, bit 11 = 0) leaves PC = the value BaseR held     *)
(* before the instruction and R7 = the incremented PC, for every BaseR,    *)
(* R7 included: the reads come before the writes.  execute_jsr writes R7   *)
(* before it reads BaseR.                                                  *)
(***************************************************************************)
C2_JsrrReadsBeforeWrites ==
    (Ran(4) /\ Field(last.raw, 11, 1) = 0) =>
        /\ registers.pc = last.registers.registers[Field(last.raw, 6, 3)]
        /\ registers.registers[R7] = last.registers.pc

(***************************************************************************)
(* C3: update_flags(v) replaces COND, whatever it held, by exactly one     *)
(* flag: Zero if v = 0, Negative if bit 15 of v is set, Positive           *)
(* otherwise; general registers, PC and memory are untouched.              *)
(***************************************************************************)
C3_UpdateFlags ==
    status = "called" =>
        /\ registers.cond = FlagOf(arg)
        /\ registers.cond \in Flags
        /\ registers.registers = last.registers.registers
        /\ registers.pc = last.registers.pc
        /\ memory = last.memory

C3_Witness ==
    /\ status = "called"
    /\ last.registers.cond = FL_POS + FL_ZRO + FL_NEG
    /\ arg = 32768
    /\ registers.cond = FL_NEG

(***************************************************************************)
(* C4: for n in {5, 6, 9, 11} and every n-bit field x, sign_extend(x, n)   *)
(* is x when bit n-1 is clear and x + (2^16 - 2^n) when it is set: the     *)
(* 16-bit two's-complement word of the field's signed value.               *)
(***************************************************************************)
C4_SignExtend ==
    status = "called" =>
        /\ ret = (IF Field(arg[1], arg[2] - 1, 1) = 0
                  THEN arg[1]
                  ELSE arg[1] + ((2 ^ 16) - (2 ^ arg[2])))
        /\ ret \in Word
        /\ (IF ret >= 32768 THEN ret - (2 ^ 16) ELSE ret)
             = (IF arg[1] >= 2 ^ (arg[2] - 1) THEN arg[1] - (2 ^ arg[2]) ELSE arg[1])

C4_Witness ==
    /\ status = "called"
    /\ arg = <<1024, 11>>
    /\ ret = 64512

(***************************************************************************)
(* C5: ADD sets DR to (SR1 + operand) mod 2^16, operand being SR2 when     *)
(* bit 5 is 0 and the sign-extended imm5 when it is 1; it never faults     *)
(* (0xFFFF + 1 = 0 with COND = Zero), sets COND from the result and leaves *)
(* the other general registers, the PC and the memory alone.               *)
(***************************************************************************)
C5_Add ==
    Ran(1) =>
        LET dr == Field(last.raw, 9, 3)
            sr1 == Field(last.raw, 6, 3)
            operand == IF Field(last.raw, 5, 1) = 0
                       THEN last.registers.registers[Field(last.raw, 0, 3)]
                       ELSE SignedField(Field(last.raw, 0, 5), 5)
            sum == (last.registers.registers[sr1] + operand) % (2 ^ 16)
        IN  /\ last.result = "Ok"
            /\ registers.registers[dr] = sum
            /\ registers.cond = FlagOf(sum)
            /\ OthersKept(dr)
            /\ registers.pc = last.registers.pc
            /\ memory = last.memory
            /\ (last.raw = 5121 /\ last.registers.registers[R0] = 5
                  /\ last.registers.registers[R1] = 10)
                 => (registers.registers[R2] = 15 /\ registers.cond = FL_POS)

C5_Witness ==
    /\ Ran(1)
    /\ last.raw = AsmADDr(R2, R0, R1)
    /\ last.registers.registers[R0] = 65535
    /\ last.registers.registers[R1] = 1
    /\ registers.registers[R2] = 0
    /\ registers.cond = FL_ZRO
    /\ last.result = "Ok"

(***************************************************************************)
(* C6: the loop increments the PC (mod 2^16) after the fetch and before    *)
(* the handler runs, so for an instruction fetched from A the effective    *)
(* address of BR, JSR, LD, LDI, LEA, ST and STI is                         *)
(* (A + 1 + sign_extend(offset)) mod 2^16.                                 *)
(***************************************************************************)
C6_PcRelative ==
    last.called =>
        LET A == last.pc0
            op == Field(last.raw, 12, 4)
            r == Field(last.raw, 9, 3)
            ea9 == (A + 1 + SignedField(Field(last.raw, 0, 9), 9)) % (2 ^ 16)
            ea11 == (A + 1 + SignedField(Field(last.raw, 0, 11), 11)) % (2 ^ 16)
            taken == \E k \in 0 .. 2 :
                        Field(last.raw, 9 + k, 1) = 1 /\ Field(last.registers.cond, k, 1) = 1
        IN  /\ last.raw = Memory_read(last.memory, A)
            /\ last.registers.pc = (A + 1) % (2 ^ 16)
            /\ op = 14 => registers.registers[r] = ea9
            /\ op = 2 => registers.registers[r] = Memory_read(last.memory, ea9)
            /\ op = 10 => registers.registers[r]
                            = Memory_read(last.memory, Memory_read(last.memory, ea9))
            /\ op = 3 => Memory_read(memory, ea9) = last.registers.registers[r]
            /\ op = 11 => Memory_read(memory, Memory_read(last.memory, ea9))
                            = last.registers.registers[r]
            /\ op = 0 => registers.pc = (IF taken THEN ea9 ELSE (A + 1) % (2 ^ 16))
            /\ (op = 4 /\ Field(last.raw, 11, 1) = 1) =>
                   (registers.pc = ea11 /\ registers.registers[R7] = (A + 1) % (2 ^ 16))

C6_Witness ==
    /\ Ran(14)
    /\ last.pc0 = 65535
    /\ last.raw = AsmLEA(R0, Neg(2, 9))
    /\ registers.registers[R0] = 65534
    /\ registers.pc = 0

(***************************************************************************)
(* C7: BR sets PC to (PC + sign_extend(offset9)) mod 2^16 iff one of its   *)
(* n/z/p bits (11/10/9) is set together with the matching flag of COND,    *)
(* and leaves the PC alone otherwise; COND, the general registers and the  *)
(* memory are unchanged either way.                                        *)
(***************************************************************************)
C7_Branch ==
    Ran(0) =>
        LET taken == \/ (Field(last.raw, 11, 1) = 1 /\ Field(last.registers.cond, 2, 1) = 1)
                     \/ (Field(last.raw, 10, 1) = 1 /\ Field(last.registers.cond, 1, 1) = 1)
                     \/ (Field(last.raw, 9, 1) = 1 /\ Field(last.registers.cond, 0, 1) = 1)
            target == (last.registers.pc + SignedField(Field(last.raw, 0, 9), 9)) % (2 ^ 16)
        IN  /\ last.result = "Ok"
            /\ registers.pc = (IF taken THEN target ELSE last.registers.pc)
            /\ registers.cond = last.registers.cond
            /\ registers.registers = last.registers.registers
            /\ memory = last.memory
            /\ Field(last.raw, 9, 3) = 0 => registers.pc = last.registers.pc

C7_Witness ==
    /\ Ran(0)
    /\ last.raw = AsmBR(4, Neg(1, 9))
    /\ last.registers.cond = FL_NEG
    /\ last.registers.pc = 12288
    /\ registers.pc = 12287

(***************************************************************************)
(* C8: LDI sets DR to Memory[Memory[(PC + sign_extend(offset9)) mod 2^16]] *)
(* and COND from the loaded value, and changes neither the memory nor the  *)
(* PC nor another register (Memory[0x3000] = 0x3002, Memory[0x3002] =      *)
(* 0x4242, the offset resolving to 0x3000: R3 = 0x4242, COND = Positive).  *)
(***************************************************************************)
C8_LoadIndirect ==
    Ran(10) =>
        LET dr == Field(last.raw, 9, 3)
            address == (last.registers.pc + SignedField(Field(last.raw, 0, 9), 9)) % (2 ^ 16)
            val == Memory_read(last.memory, Memory_read(last.memory, address))
        IN  /\ last.result = "Ok"
            /\ registers.registers[dr] = val
            /\ registers.cond = FlagOf(val)
            /\ OthersKept(dr)
            /\ registers.pc = last.registers.pc
            /\ memory = last.memory

C8_Witness ==
    /\ Ran(10)
    /\ last.raw = AsmLDI(R3, 0)
    /\ last.registers.pc = 12288
    /\ Memory_read(last.memory, 12288) = 12290
    /\ Memory_read(last.memory, 12290) = 16962
    /\ registers.registers[R3] = 16962
    /\ registers.cond = FL_POS

(***************************************************************************)
(* C9: executing 0xF025 (TRAP 0x25) always yields the Halt signal and      *)
(* leaves every general register, the PC, COND and the memory as they were *)
(* when execute was called.                                                *)
(***************************************************************************)
C9_Halt ==
    (last.called /\ last.raw = 61477) =>
        /\ last.result = "HALT"
        /\ last.out = << >>
        /\ registers = last.registers
        /\ memory = last.memory

C9_Witness ==
    /\ last.called
    /\ last.raw = 61477
    /\ last.result = "HALT"
    /\ registers.registers[R0] = 65535
    /\ registers.cond = FL_ZRO
    /\ memory # Memory_new

(***************************************************************************)
(* C10: execute_program stops only when an instruction yields Halt or a    *)
(* fault: it returns Ok exactly when the HALT trap ran and the fault of    *)
(* the first faulting instruction otherwise, and goes on after every       *)
(* instruction that returned Ok.  trap_puts and trap_putsp advance their   *)
(* address with a plain `+= 1`; with overflow checks on, a string that     *)
(* reaches 0xFFFF ends the loop with a panic.                              *)
(***************************************************************************)
Faults ==
    { "Unknown opcode", "Reserved opcode", "RTI not implemented", "Unknown TRAP vector",
      "Failed to read character", "Failed to flush stdout", "Invalid instruction" }

C10_StopsOnlyOnHaltOrFault ==
    /\ status = "Ok" <=> (last.called /\ last.result = "HALT")
    /\ status = "running" => (~last.called \/ last.result = "Ok")
    /\ status \notin {"start", "load panic", "running", "Ok"} =>
           (last.called /\ status \in Faults /\ last.result = status)

(***************************************************************************)
(* C11: decoding is total.  For every 16-bit word raw, extract_opcode(raw) *)
(* is a defined Opcode whose to_u16 is raw >> 12; from_u16 returns None    *)
(* only for values of 16 and more; so execute never returns "Unknown       *)
(* opcode" and the loop never returns "Invalid instruction".               *)
(***************************************************************************)
C11_DecodeTotal ==
    /\ status = "extracted" =>
           (ret # None /\ to_u16(ret) = arg \div 4096)
    /\ status = "converted" =>
           /\ ret = None <=> arg >= 16
           /\ ret # None => to_u16(ret) = arg
    /\ status = "executed" =>
           (last.called /\ last.raw = arg /\ last.result # "Unknown opcode")
    /\ status = "iterated" =>
           (last.called /\ last.raw = arg /\ ret # "Invalid instruction"
              /\ last.result # "Unknown opcode")

C11_Witness ==
    /\ status = "iterated"
    /\ arg = 57005
    /\ last.called
    /\ last.raw = 57005
    /\ ret = "Reserved opcode"

(***************************************************************************)
(* C12: a word whose top four bits are 1000 (RTI) or 1101 (reserved),      *)
(* whatever its low 12 bits, makes execute return an Err ("RTI not         *)
(* implemented" / "Reserved opcode"), never panic, print nothing and leave *)
(* the general registers, the PC, COND and the memory as they were.        *)
(***************************************************************************)
C12_RtiAndReservedFault ==
    (Ran(8) \/ Ran(13)) =>
        /\ last.result = (IF Field(last.raw, 12, 4) = 8
                          THEN "RTI not implemented" ELSE "Reserved opcode")
        /\ last.result \in Faults
        /\ last.result # Panic
        /\ last.out = << >>
        /\ registers = last.registers
        /\ memory = last.memory

C12_Witness ==
    /\ status = "executed"
    /\ last.raw = 36863
    /\ last.result = "RTI not implemented"
    /\ registers = WordsRegisterFile
    /\ Memory_read(memory, 16385) = 26953

(***************************************************************************)
(* C13: a TRAP whose low 8 bits are none of 0x20 .. 0x25 makes execute     *)
(* return "Unknown TRAP vector" whatever the console would do, print       *)
(* nothing and leave the registers, COND and the memory as they were.      *)
(***************************************************************************)
C13_UnknownTrapVector ==
    (Ran(15) /\ Field(last.raw, 0, 8) \notin 32 .. 37) =>
        /\ last.result = "Unknown TRAP vector"
        /\ last.out = << >>
        /\ registers = last.registers
        /\ memory = last.memory

C13_Witness ==
    /\ status = "executed"
    /\ last.raw = 61478
    /\ ~last.console.read_ok
    /\ ~last.console.flush_ok
    /\ last.result = "Unknown TRAP vector"
    /\ registers = WordsRegisterFile

(***************************************************************************)
(* C14: a fresh Memory reads 0 at every address of 0 .. 65535; after       *)
(* write(a, v) read(a) is v and every other address reads what it read     *)
(* before; every read returns the value last written to its address since  *)
(* new or clear (0 if none); after clear every address reads 0; reads and  *)
(* writes at 0xFFFF and at wrapped addresses (0xFFFF + 1 = 0) succeed.     *)
(***************************************************************************)
\* the value last written to address a in the log, 0 if there is none
LastWritten(log, a) ==
    LET at == { i \in 1 .. Len(log) : log[i][1] = a }
    IN  IF at = {} THEN 0
        ELSE log[CHOOSE i \in at : \A j \in at : j <= i][2]

\* every address that holds, or held before the last operation, a non-zero
\* word, and the addresses at the ends of the address space; all the other
\* addresses read 0 before and after
Touched == DOMAIN memory \cup DOMAIN last.memory \cup {0, 1, 32767, 32768, 65534, 65535}

C14_Memory ==
    /\ DOMAIN memory \subseteq Addresses
    /\ \A a \in DOMAIN memory : memory[a] \in Word \ {0}
    /\ status = "new" => \A a \in Addresses : Memory_read(memory, a) = 0
    /\ status = "cleared" => \A a \in Addresses : Memory_read(memory, a) = 0
    /\ status = "written" =>
           /\ arg[1] \in Addresses
           /\ Memory_read(memory, arg[1]) = arg[2]
           /\ \A b \in Touched \ {arg[1]} :
                  Memory_read(memory, b) = Memory_read(last.memory, b)
    /\ status = "read" =>
           /\ arg[1] \in Addresses
           /\ ret = LastWritten(last.log, arg[1])
           /\ memory = last.memory
    /\ \A b \in Touched : Memory_read(memory, b) = LastWritten(last.log, b)

C14_Witness ==
    /\ status = "read"
    /\ arg = <<0>>
    /\ ret = 4660
    /\ last.log = <<<<0, 65535>>, <<0, 4660>>>>
    /\ Memory_read(memory, 65535) = 0

(***************************************************************************)
(* C15: the ten locations R0 .. R7, PC and COND are distinct.  After       *)
(* write(r, v) read(r) is v and every other location reads what it read    *)
(* before; every read returns the value last written to its location (0    *)
(* if none since new): a write to a general register changes neither PC    *)
(* nor COND, and a write to PC or COND changes no general register.        *)
(***************************************************************************)
C15_RegisterFile ==
    /\ status = "written" =>
           /\ RegisterFile_read(registers, arg[1]) = arg[2]
           /\ \A s \in Registers \ {arg[1]} :
                  RegisterFile_read(registers, s) = RegisterFile_read(last.registers, s)
           /\ arg[1] \in GeneralRegisters =>
                  (registers.pc = last.registers.pc /\ registers.cond = last.registers.cond)
           /\ arg[1] \in {PC, COND} => registers.registers = last.registers.registers
    /\ status = "read" =>
           /\ ret = LastWritten(last.log, arg[1])
           /\ registers = last.registers
    /\ \A s \in Registers : RegisterFile_read(registers, s) = LastWritten(last.log, s)

C15_Witness ==
    /\ status = "read"
    /\ arg = <<R0>>
    /\ ret = 4660
    /\ last.log = <<<<R0, 4660>>, <<PC, 65535>>>>
    /\ registers.pc = 65535
    /\ registers.cond = 0

(***************************************************************************)
(* C16: the PC is always an address of 0 .. 65535 and no PC arithmetic     *)
(* faults.  The loop's increment takes 0xFFFF to 0x0000; BR, JMP, JSR and  *)
(* JSRR return Ok with the PC set mod 2^16; and the next iteration fetches *)
(* the word at the PC the previous one left, the wrapped one included.     *)
(***************************************************************************)
C16_PcInRange ==
    /\ registers.pc \in Word
    /\ last.called =>
           /\ last.pc0 \in Word
           /\ last.registers.pc = (IF last.pc0 = 65535 THEN 0 ELSE last.pc0 + 1)
           /\ (Ran(0) \/ Ran(4) \/ Ran(12)) =>
                  (last.result = "Ok" /\ status = "running")
           /\ Ran(0) =>
                  registers.pc \in
                      { last.registers.pc,
                        (last.registers.pc + SignedField(Field(last.raw, 0, 9), 9)) % (2 ^ 16) }
           /\ (Ran(4) /\ Field(last.raw, 11, 1) = 1) =>
                  registers.pc
                    = (last.registers.pc + SignedField(Field(last.raw, 0, 11), 11)) % (2 ^ 16)
           /\ Ran(12) =>
                  registers.pc = last.registers.registers[Field(last.raw, 6, 3)]

\* C16: the PC stays in 0 .. 65535, its updates are taken mod 2^16 without a
\* fault, and every iteration fetches at the PC the previous one left.
C16_PcWraps ==
    /\ []C16_PcInRange
    /\ [][steps' # steps =>
            /\ last'.called
            /\ last'.pc0 = registers.pc
            /\ last'.raw = Memory_read(memory, registers.pc)]_vars

C16_Witness ==
    /\ arg = ObjFile(65534, <<AsmANDi(R0, R0, 0), AsmBR(7, Neg(1, 9))>>)
    /\ steps = 3
    /\ status = "running"
    /\ last.called
    /\ last.pc0 = 65535
    /\ last.raw = AsmBR(7, Neg(1, 9))
    /\ last.registers.pc = 0
    /\ registers.pc = 65535

(***************************************************************************)
(* C17: COND changes only through the instructions that produce a result   *)
(* in a general register.  ADD, AND, NOT, LD, LDI, LDR and LEA leave COND  *)
(* the flag of the value they wrote to DR; ST, STI, STR, BR, JMP, JSR,     *)
(* JSRR and every TRAP (GETC and IN, which write R0, included) leave COND  *)
(* as it was.                                                              *)
(***************************************************************************)
ResultOpcodes == {1, 5, 9, 2, 10, 6, 14}

C17_CondOnlyByResults ==
    last.called =>
        /\ Field(last.raw, 12, 4) \in ResultOpcodes =>
               /\ last.result = "Ok"
               /\ registers.cond = FlagOf(registers.registers[Field(last.raw, 9, 3)])
        /\ Field(last.raw, 12, 4) \notin ResultOpcodes =>
               registers.cond = last.registers.cond

C17_Witness ==
    /\ Ran(15)
    /\ Field(last.raw, 0, 8) = 32
    /\ last.result = "Ok"
    /\ last.registers.registers[R0] = 65535
    /\ registers.registers[R0] = 0
    /\ last.registers.cond = FL_NEG
    /\ registers.cond = FL_NEG

(***************************************************************************)
(* What PUTS and PUTSP are to write, as raw bytes, scanning with an        *)
(* address that wraps from 0xFFFF to 0x0000.                               *)
(***************************************************************************)
RECURSIVE LowBytes(_, _)
\* the low bytes of the words from address on, up to the first zero low byte
LowBytes(mem, address) ==
    IF Memory_read(mem, address) % 256 = 0 THEN << >>
    ELSE <<Memory_read(mem, address) % 256>> \o LowBytes(mem, (address + 1) % (2 ^ 16))

RECURSIVE PackedBytes(_, _)
\* low byte then high byte of the words from address on, up to the first
\* zero byte in that order
PackedBytes(mem, address) ==
    IF Memory_read(mem, address) % 256 = 0 THEN << >>
    ELSE IF Memory_read(mem, address) \div 256 = 0
         THEN <<Memory_read(mem, address) % 256>>
         ELSE <<Memory_read(mem, address) % 256, Memory_read(mem, address) \div 256>>
                \o PackedBytes(mem, (address + 1) % (2 ^ 16))

(***************************************************************************)
(* C18: TRAP 0x24 writes, per word from the address in R0, the low byte    *)
(* and then the high byte, and stops at the first zero byte met in that    *)
(* order (a zero low byte stops it before the high byte, a zero high byte  *)
(* right after the low byte); registers and memory are unchanged.          *)
(* trap_putsp advances with a plain `address += 1` and prints each byte as *)
(* a char: a packed string that reaches 0xFFFF panics when overflow checks *)
(* are on, and a byte of 0x80 or more is written as two bytes.             *)
(***************************************************************************)
C18_Putsp ==
    (Ran(15) /\ Field(last.raw, 0, 8) = 36) =>
        /\ last.result \in {"Ok", "Failed to flush stdout"}
        /\ last.out = PackedBytes(last.memory, last.registers.registers[R0])
        /\ registers = last.registers
        /\ memory = last.memory

(***************************************************************************)
(* C19: TRAP 0x22 writes the low byte of each word from the address in R0  *)
(* up to the first word whose low byte is zero; the address wraps, so a    *)
(* string that runs past 0xFFFF goes on at 0x0000 without a fault;         *)
(* registers (R0 included) and memory are unchanged.  trap_puts advances   *)
(* with a plain `address += 1`, which panics at 0xFFFF when overflow       *)
(* checks are on, and prints each byte as a char.                          *)
(***************************************************************************)
C19_Puts ==
    (Ran(15) /\ Field(last.raw, 0, 8) = 34) =>
        /\ last.result \in {"Ok", "Failed to flush stdout"}
        /\ last.out = LowBytes(last.memory, last.registers.registers[R0])
        /\ registers = last.registers
        /\ memory = last.memory

FileWord(file, i) == file[2 * i + 3] * 256 + file[2 * i + 4]

C21_LoadObjFile ==
    (status # "start" /\ steps = 0 /\ Len(arg) >= 2 /\ Len(arg) % 2 = 0
       /\ arg[1] * 256 + arg[2] + (Len(arg) - 2) \div 2 <= 65536) =>
        LET origin == arg[1] * 256 + arg[2]
            k == (Len(arg) - 2) \div 2
        IN  /\ status = "running"
            /\ registers.pc = origin
            /\ \A i \in 0 .. (k - 1) : Memory_read(memory, origin + i) = FileWord(arg, i)
            /\ DOMAIN memory \subseteq origin .. (origin + k - 1)

(***************************************************************************)
(* C22: code and data share the one memory.  After ST, STI or STR the      *)
(* cell at the effective address holds SR; every iteration fetches its     *)
(* instruction word from the memory as the instructions before it left it, *)
(* so the word a store wrote at A is the word executed when the PC is A    *)
(* (checked directly when the very next fetch is at A); and LD from an     *)
(* address returns the word there, instruction words included.             *)
(***************************************************************************)
\* the effective address of the store or PC-relative load in `last`
EffectiveAddress ==
    CASE Field(last.raw, 12, 4) \in {2, 3} ->
           (last.registers.pc + SignedField(Field(last.raw, 0, 9), 9)) % (2 ^ 16)
      [] Field(last.raw, 12, 4) \in {10, 11} ->
           Memory_read(last.memory,
                       (last.registers.pc + SignedField(Field(last.raw, 0, 9), 9)) % (2 ^ 16))
      [] Field(last.raw, 12, 4) \in {6, 7} ->
           (last.registers.registers[Field(last.raw, 6, 3)]
              + SignedField(Field(last.raw, 0, 6), 6)) % (2 ^ 16)

Stores == {3, 7, 11}

C22_StoresAndFetches ==
    last.called =>
        /\ last.raw = Memory_read(last.memory, last.pc0)
        /\ Field(last.raw, 12, 4) \in Stores =>
               Memory_read(memory, EffectiveAddress)
                 = last.registers.registers[Field(last.raw, 9, 3)]
        /\ Ran(2) =>
               registers.registers[Field(last.raw, 9, 3)]
                 = Memory_read(last.memory, EffectiveAddress)

\* C22: a store's word is in the memory the next fetches read, and is the
\* instruction executed when the PC reaches its address.
C22_SharedMemory ==
    /\ []C22_StoresAndFetches
    /\ [][steps' # steps =>
            /\ last'.memory = memory
            /\ last'.raw = Memory_read(memory, registers.pc)
            /\ (last.called /\ Field(last.raw, 12, 4) \in Stores
                  /\ registers.pc = EffectiveAddress) =>
                   last'.raw = last.registers.registers[Field(last.raw, 9, 3)]]_vars

C22_Witness ==
    /\ arg = ObjFile(12288, <<AsmLD(R0, 2), AsmST(R0, 0), AsmBR(0, 0), AsmTRAP(37)>>)
    /\ steps = 3
    /\ last.called
    /\ last.pc0 = 12290
    /\ last.raw = AsmTRAP(37)
    /\ registers.registers[R0] = AsmTRAP(37)
    /\ Memory_read(memory, 12290) = AsmTRAP(37)
    /\ status = "Ok"

(***************************************************************************)
(* C23: call and return.  A JSR (bit 11 = 1) fetched at A leaves R7 =      *)
(* (A + 1) mod 2^16; JMP sets the PC to the content of BaseR and changes   *)
(* nothing else, so RET (JMP R7) reached with R7 as the JSR left it sets   *)
(* the PC to (A + 1) mod 2^16 and the next fetch is the word after the     *)
(* JSR.                                                                    *)
(***************************************************************************)
RET == AsmJMP(R7)

C23_JsrAndJmp ==
    last.called =>
        /\ (Ran(4) /\ Field(last.raw, 11, 1) = 1) =>
               /\ last.result = "Ok"
               /\ registers.registers[R7] = (last.pc0 + 1) % (2 ^ 16)
               /\ \A r \in GeneralRegisters \ {R7} :
                      registers.registers[r] = last.registers.registers[r]
        /\ Ran(12) =>
               /\ last.result = "Ok"
               /\ registers.pc = last.registers.registers[Field(last.raw, 6, 3)]
               /\ registers.registers = last.registers.registers
               /\ registers.cond = last.registers.cond
               /\ memory = last.memory

\* C23: RET returns to the word after the JSR whenever R7 still holds what the
\* JSR left in it.
C23_RoundTrip ==
    /\ []C23_JsrAndJmp
    /\ [][(steps' # steps /\ Memory_read(memory, registers.pc) = RET) =>
            /\ registers'.pc = registers.registers[R7]
            /\ (Ran(4) /\ Field(last.raw, 11, 1) = 1) =>
                   registers'.pc = (last.pc0 + 1) % (2 ^ 16)]_vars

C23_Witness ==
    /\ arg = ObjFile(12288, <<AsmJSR(2), AsmTRAP(37), AsmTRAP(38), AsmADDi(R1, R1, 1), RET>>)
    /\ steps = 4
    /\ status = "Ok"
    /\ last.pc0 = 12289
    /\ last.raw = AsmTRAP(37)
    /\ registers.registers[R7] = 12289
    /\ registers.registers[R1] = 1

(***************************************************************************)
(* C24: only stores modify the memory.  ADD, AND, NOT, BR, JMP, JSR, JSRR, *)
(* LD, LDI, LDR, LEA, TRAP, RTI and the reserved opcode leave every cell   *)
(* as it was; ST, STI and STR change at most the cell at their effective   *)
(* address, which then holds SR, and change no register, PC or COND.       *)
(***************************************************************************)
C24_OnlyStoresWrite ==
    last.called =>
        /\ Field(last.raw, 12, 4) \notin Stores => memory = last.memory
        /\ Field(last.raw, 12, 4) \in Stores =>
               /\ last.result = "Ok"
               /\ Memory_read(memory, EffectiveAddress)
                    = last.registers.registers[Field(last.raw, 9, 3)]
               /\ \A b \in (DOMAIN memory \cup DOMAIN last.memory) \ {EffectiveAddress} :
                      Memory_read(memory, b) = Memory_read(last.memory, b)
               /\ registers = last.registers

C24_Witness ==
    /\ Ran(7)
    /\ last.raw = AsmSTR(R1, R0, 63)
    /\ last.registers.registers[R0] = 0
    /\ last.registers.registers[R1] = 32767
    /\ Memory_read(last.memory, 65535) = 65
    /\ Memory_read(memory, 65535) = 32767
    /\ Memory_read(memory, 0) = 17218

(***************************************************************************)
(* C25: for every 16-bit word, every register selector a handler extracts  *)
(* (DR, SR, SR1, SR2, BaseR) is a 3-bit field, a value of 0 .. 7, so the    *)
(* "Invalid register number" panic is unreachable and no selector reaches  *)
(* the PC or COND: the PC is changed only by the loop's increment, BR, JMP *)
(* and JSR/JSRR, and COND only by the instructions that call update_flags  *)
(* (to the flag of the value written).                                     *)
(***************************************************************************)
PcWriters == {0, 4, 12}

C25_SelectorsInRange ==
    last.called =>
        /\ last.result # Panic
        /\ Field(last.raw, 12, 4) \notin PcWriters => registers.pc = last.registers.pc
        /\ status = "iterated" => last.registers.pc = (last.pc0 + 1) % (2 ^ 16)
        /\ registers.cond # last.registers.cond =>
               /\ Field(last.raw, 12, 4) \in ResultOpcodes
               /\ registers.cond = FlagOf(registers.registers[Field(last.raw, 9, 3)])
        /\ Cardinality({ r \in GeneralRegisters :
                           registers.registers[r] # last.registers.registers[r] }) <= 1
        /\ \A r \in GeneralRegisters :
               registers.registers[r] # last.registers.registers[r] =>
                   \/ r = Field(last.raw, 9, 3) /\ Field(last.raw, 12, 4) \in ResultOpcodes
                   \/ r = R7 /\ Field(last.raw, 12, 4) = 4
                   \/ r = R0 /\ Field(last.raw, 12, 4) = 15

C25_Witness ==
    /\ status = "executed"
    /\ last.raw = AsmADDr(R7, R7, R7) + 24
    /\ last.result = "Ok"
    /\ registers.registers[R7] = 8206
    /\ registers.pc = 12288
    /\ registers.cond = FL_POS

====
